---- MODULE Spec2Model ----
(***************************************************************************)
(* Model of flower_production_facility.py: bouquet designs are compiled    *)
(* into two dictionaries (large / small), then a stream of flowers is      *)
(* consumed one flower at a time; every arrival increments the counter of  *)
(* its size class and scans the designs of that class for bouquets that    *)
(* can be made, deducting the flowers used and printing the bouquet.       *)
(*                                                                         *)
(* Strings are sequences of one-character strings.  A Python dict (which   *)
(* keeps insertion order) is a sequence of [key, value] records.           *)
(***************************************************************************)
EXTENDS Integers, Sequences, FiniteSets, TLC

\* ------------------------------------------------------------------ bounds
\* number of bouquet designs in the input
MaxDesigns == 2
\* number of flowers consumed from the stream
MaxFlowers == 4

\* ------------------------------------------------------------------ inputs
\* Bouquet design tokens, each one a match of the extraction pattern
\* [A-Z][LS][\d+a-z]+\d+ :
\*   AS1a1b2  two named types, no additional flowers
\*   BS1a3    one named type, 2 additional flowers
\*   CS0a1    a quantity of 0, 1 additional flower
\*   DS03     no named type at all, 3 additional flowers
\*   LS1b1    identifier 'L' on a small design; total equal to a quantity
\*   AL1a2    large design, 1 additional flower
\*   LL2b2    large design with identifier 'L'; total equal to a quantity
\*   SL1a1b3  large design with identifier 'S', 1 additional flower
DesignTokens ==
    { <<"A", "S", "1", "a", "1", "b", "2">>,
      <<"B", "S", "1", "a", "3">>,
      <<"C", "S", "0", "a", "1">>,
      <<"D", "S", "0", "3">>,
      <<"L", "S", "1", "b", "1">>,
      <<"A", "L", "1", "a", "2">>,
      <<"L", "L", "2", "b", "2">>,
      <<"S", "L", "1", "a", "1", "b", "3">> }

\* Flowers, each one a match of the extraction pattern [a-z][LS]
Flowers == { <<"a", "L">>, <<"b", "L">>, <<"a", "S">>, <<"b", "S">> }

\* Lists of designs: identifiers are unique within a size class
DesignLists ==
    { l \in UNION { [1..n -> DesignTokens] : n \in 0..MaxDesigns } :
        \A i, j \in DOMAIN l : i # j => <<l[i][1], l[i][2]>> # <<l[j][1], l[j][2]>> }

\* ------------------------------------------------------------------ text
Digits == {"0", "1", "2", "3", "4", "5", "6", "7", "8", "9"}
Lower == {"a", "b", "c", "d", "e", "f", "g", "h", "i", "j", "k", "l", "m",
          "n", "o", "p", "q", "r", "s", "t", "u", "v", "w", "x", "y", "z"}

DigitValue(c) ==
    CASE c = "0" -> 0 [] c = "1" -> 1 [] c = "2" -> 2 [] c = "3" -> 3
      [] c = "4" -> 4 [] c = "5" -> 5 [] c = "6" -> 6 [] c = "7" -> 7
      [] c = "8" -> 8 [] c = "9" -> 9

\* int(s) of a decimal numeral
RECURSIVE IntAcc(_, _)
IntAcc(s, acc) ==
    IF s = <<>> THEN acc ELSE IntAcc(Tail(s), 10 * acc + DigitValue(Head(s)))

Int_(s) == IntAcc(s, 0)

\* re.findall(r'\d+', s): the maximal runs of digits, left to right
RECURSIVE FindNumbersAcc(_, _, _)
FindNumbersAcc(s, cur, acc) ==
    IF s = <<>>
    THEN IF cur = <<>> THEN acc ELSE Append(acc, cur)
    ELSE IF Head(s) \in Digits
         THEN FindNumbersAcc(Tail(s), Append(cur, Head(s)), acc)
         ELSE FindNumbersAcc(Tail(s), <<>>, IF cur = <<>> THEN acc ELSE Append(acc, cur))

FindNumbers(s) == FindNumbersAcc(s, <<>>, <<>>)

\* re.findall(r'[a-z]', s)
FindNames(s) == SelectSeq(s, LAMBDA c : c \in Lower)

\* s[n:] with a 0-based n
From(s, n) == SubSeq(s, n + 1, Len(s))

StartsWith(s, sub) == Len(sub) <= Len(s) /\ SubSeq(s, 1, Len(sub)) = sub

\* s.replace(sub, ''): every non-overlapping occurrence is removed
RECURSIVE Replace(_, _)
Replace(s, sub) ==
    IF s = <<>> \/ sub = <<>> THEN s
    ELSE IF StartsWith(s, sub) THEN Replace(From(s, Len(sub)), sub)
         ELSE <<Head(s)>> \o Replace(Tail(s), sub)

\* ------------------------------------------------------------------ dicts
Keys(d) == { d[i].key : i \in DOMAIN d }

Get(d, k) == d[CHOOSE i \in DOMAIN d : d[i].key = k].value

\* d[k] = v: an existing key keeps its position
Put(d, k, v) ==
    IF k \in Keys(d)
    THEN [i \in DOMAIN d |-> IF d[i].key = k THEN [key |-> k, value |-> v] ELSE d[i]]
    ELSE Append(d, [key |-> k, value |-> v])

\* dict(zip(ks, vs))
RECURSIVE DictZipAcc(_, _, _)
DictZipAcc(ks, vs, d) ==
    IF ks = <<>> \/ vs = <<>> THEN d
    ELSE DictZipAcc(Tail(ks), Tail(vs), Put(d, Head(ks), Head(vs)))

DictZip(ks, vs) == DictZipAcc(ks, vs, <<>>)

RECURSIVE Sum(_)
Sum(s) == IF s = <<>> THEN 0 ELSE Head(s) + Sum(Tail(s))

\* ------------------------------------------------------------------ state
VARIABLES
    bouquet_designs,          \* the designs extracted from the input
    design_index,             \* position of the loop over bouquet_designs
    large_bouquet_designs,    \* dict: design name -> design structure
    small_bouquet_designs,
    large_flowers_counter,    \* dict: flower type -> count
    small_flowers_counter,
    printed,                  \* the bouquets printed so far
    consumed,                 \* the flowers taken from the stream so far
    before,                   \* the counters and the output before the last flower
    matches                   \* the bouquets made from the last flower

vars == << bouquet_designs, design_index, large_bouquet_designs, small_bouquet_designs,
           large_flowers_counter, small_flowers_counter, printed, consumed, before,
           matches >>

\* ------------------------------------------------------------------ designs
\* The structure create_bouquet_designs_matching_structure stores under the name
DesignStructure(bouquet_design) ==
    LET number_of_flowers == FindNumbers(From(bouquet_design, 2))
        flower_names == FindNames(From(bouquet_design, 2))
        total_number_of_flowers == number_of_flowers[Len(number_of_flowers)]
        rest == SubSeq(number_of_flowers, 1, Len(number_of_flowers) - 1)
    IN  [ total_number_of_flowers |-> total_number_of_flowers,
          flowers |-> DictZip(flower_names, rest),
          bouquet |-> Replace(bouquet_design, total_number_of_flowers) ]

create_bouquet_designs_matching_structure(bouquet_design, bouquet_designs_container) ==
    Put(bouquet_designs_container, bouquet_design[1], DesignStructure(bouquet_design))

\* 'L' in bouquet_design
ContainsL(bouquet_design) == \E i \in DOMAIN bouquet_design : bouquet_design[i] = "L"

\* ------------------------------------------------------------------ matching
\* Increment with the count assigned instead of added to
IncrementAssigned(flowers_counter, key) == Put(flowers_counter, key, 1)

\* flowers_counter[key] += 1 on a defaultdict(int): a new key is appended
Increment(flowers_counter, key) ==
    IF key \in Keys(flowers_counter)
    THEN Put(flowers_counter, key, Get(flowers_counter, key) + 1)
    ELSE Put(flowers_counter, key, 1)

\* EnoughFlowers without the comparison of the counts
EnoughFlowersUncounted(design, flowers_counter) ==
    Cardinality(Keys(flowers_counter) \cap Keys(design.flowers)) = Len(design.flowers)

\* EnoughFlowers that also asks for at least one matching flower type
EnoughFlowersNamed(design, flowers_counter) ==
    LET matching_flower_numbers ==
            { key \in Keys(flowers_counter) :
                /\ key \in Keys(design.flowers)
                /\ Get(flowers_counter, key) >= Int_(Get(design.flowers, key)) }
    IN  /\ matching_flower_numbers # {}
        /\ Cardinality(matching_flower_numbers) = Len(design.flowers)

\* EnoughFlowers satisfied by any one flower type that holds enough
EnoughFlowersSome(design, flowers_counter) ==
    \/ design.flowers = <<>>
    \/ \E key \in Keys(flowers_counter) :
          /\ key \in Keys(design.flowers)
          /\ Get(flowers_counter, key) >= Int_(Get(design.flowers, key))

\* len(matching_flower_numbers) == len(design['flowers'])
EnoughFlowers(design, flowers_counter) ==
    LET matching_flower_numbers ==
            { key \in Keys(flowers_counter) :
                /\ key \in Keys(design.flowers)
                /\ Get(flowers_counter, key) >= Int_(Get(design.flowers, key)) }
    IN  Cardinality(matching_flower_numbers) = Len(design.flowers)

NumberOfAdditionalFlowers(design) ==
    Int_(design.total_number_of_flowers)
      - Sum([i \in DOMAIN design.flowers |-> Int_(design.flowers[i].value)])

\* SubtractFlowers taking one flower of each named type, whatever the quantity
SubtractFlowersOnce(design, flowers_counter) ==
    [i \in DOMAIN flowers_counter |->
        IF flowers_counter[i].key \in Keys(design.flowers)
        THEN [key |-> flowers_counter[i].key, value |-> flowers_counter[i].value - 1]
        ELSE flowers_counter[i]]

\* SubtractFlowers whose result is never stored in the counter
SubtractFlowersNone(design, flowers_counter) == flowers_counter

\* the flowers the design names are subtracted from the counter
SubtractFlowers(design, flowers_counter) ==
    [i \in DOMAIN flowers_counter |->
        IF flowers_counter[i].key \in Keys(design.flowers)
        THEN [key |-> flowers_counter[i].key,
              value |-> flowers_counter[i].value
                          - Int_(Get(design.flowers, flowers_counter[i].key))]
        ELSE flowers_counter[i]]

\* SubtractAdditionalFlowers without the check that the key holds enough
SubtractAdditionalFlowersUnchecked(flowers_counter, number_of_additional_flowers) ==
    IF number_of_additional_flowers > 0 /\ flowers_counter # <<>>
    THEN [flowers_counter EXCEPT ![1].value = @ - number_of_additional_flowers]
    ELSE flowers_counter

\* SubtractAdditionalFlowers taking what the first key holds when no key holds enough
SubtractAdditionalFlowersPartial(flowers_counter, number_of_additional_flowers) ==
    LET enough == { i \in DOMAIN flowers_counter :
                      flowers_counter[i].value >= number_of_additional_flowers }
    IN  IF number_of_additional_flowers > 0 /\ flowers_counter # <<>>
        THEN IF enough # {}
             THEN LET first == CHOOSE i \in enough : \A j \in enough : i <= j
                  IN  [flowers_counter EXCEPT
                          ![first].value = @ - number_of_additional_flowers]
             ELSE [flowers_counter EXCEPT ![1].value = 0]
        ELSE flowers_counter

\* SubtractAdditionalFlowers without the break: the last key that holds enough
SubtractAdditionalFlowersLast(flowers_counter, number_of_additional_flowers) ==
    LET enough == { i \in DOMAIN flowers_counter :
                      flowers_counter[i].value >= number_of_additional_flowers }
    IN  IF number_of_additional_flowers > 0 /\ enough # {}
        THEN LET last == CHOOSE i \in enough : \A j \in enough : i >= j
             IN  [flowers_counter EXCEPT
                     ![last].value = @ - number_of_additional_flowers]
        ELSE flowers_counter

\* the additional flowers are subtracted from the first key that holds enough
SubtractAdditionalFlowers(flowers_counter, number_of_additional_flowers) ==
    LET enough == { i \in DOMAIN flowers_counter :
                      flowers_counter[i].value >= number_of_additional_flowers }
    IN  IF number_of_additional_flowers > 0 /\ enough # {}
        THEN LET first == CHOOSE i \in enough : \A j \in enough : i <= j
             IN  [flowers_counter EXCEPT
                     ![first].value = @ - number_of_additional_flowers]
        ELSE flowers_counter

\* One bouquet made from a design: the counter when the design was examined,
\* after the named flowers were subtracted, and after the additional ones were
MakeBouquet(bouquet_name, design, flowers_counter) ==
    LET named == SubtractFlowers(design, flowers_counter)
    IN  [ bouquet_name |-> bouquet_name,
          bouquet |-> design.bouquet,
          flowers |-> design.flowers,
          additional |-> NumberOfAdditionalFlowers(design),
          examined |-> flowers_counter,
          named |-> named,
          after |-> SubtractAdditionalFlowers(named, NumberOfAdditionalFlowers(design)) ]

\* ScanDesigns leaving the loop after the first design
ScanFirstDesignOnly(designs, n, flowers_counter, made) ==
    IF designs # <<>> /\ EnoughFlowers(designs[1].value, flowers_counter)
    THEN LET m == MakeBouquet(designs[1].key, designs[1].value, flowers_counter)
         IN  [flowers_counter |-> m.after, made |-> Append(made, m)]
    ELSE [flowers_counter |-> flowers_counter, made |-> made]

\* for bouquet_name in bouquet_designs.keys(): ...
RECURSIVE ScanDesigns(_, _, _, _)
ScanDesigns(designs, n, flowers_counter, made) ==
    IF n > Len(designs)
    THEN [flowers_counter |-> flowers_counter, made |-> made]
    ELSE IF EnoughFlowers(designs[n].value, flowers_counter)
         THEN LET m == MakeBouquet(designs[n].key, designs[n].value, flowers_counter)
              IN  ScanDesigns(designs, n + 1, m.after, Append(made, m))
         ELSE ScanDesigns(designs, n + 1, flowers_counter, made)

match_flower_streams_with_bouquet_design_structures(flower, designs, flowers_counter) ==
    ScanDesigns(designs, 1, Increment(flowers_counter, flower[1]), <<>>)

\* production_facility with the large counter handed to the small designs too
production_facility_one_counter(flower, large_designs, small_designs, large_counter, small_counter) ==
    LET r == match_flower_streams_with_bouquet_design_structures(
                 flower,
                 IF flower[2] = "L" THEN large_designs ELSE small_designs,
                 large_counter)
    IN  [large |-> r.flowers_counter, small |-> small_counter, made |-> r.made]

\* The flower goes to the designs and the counter of its size
production_facility(flower, large_designs, small_designs, large_counter, small_counter) ==
    IF flower[2] = "L"
    THEN LET r == match_flower_streams_with_bouquet_design_structures(
                      flower, large_designs, large_counter)
         IN  [large |-> r.flowers_counter, small |-> small_counter, made |-> r.made]
    ELSE LET r == match_flower_streams_with_bouquet_design_structures(
                      flower, small_designs, small_counter)
         IN  [large |-> large_counter, small |-> r.flowers_counter, made |-> r.made]

\* ------------------------------------------------------------------ behaviour
Init ==
    /\ bouquet_designs \in DesignLists
    /\ design_index = 1
    /\ large_bouquet_designs = <<>>
    /\ small_bouquet_designs = <<>>
    /\ large_flowers_counter = <<>>
    /\ small_flowers_counter = <<>>
    /\ printed = <<>>
    /\ consumed = <<>>
    /\ before = [large |-> <<>>, small |-> <<>>, printed |-> <<>>]
    /\ matches = <<>>

\* One turn of the loop over the bouquet designs
CreateBouquetDesign ==
    /\ design_index <= Len(bouquet_designs)
    /\ LET bouquet_design == bouquet_designs[design_index]
       IN  IF ContainsL(bouquet_design)
           THEN /\ large_bouquet_designs' = create_bouquet_designs_matching_structure(
                                                bouquet_design, large_bouquet_designs)
                /\ UNCHANGED small_bouquet_designs
           ELSE /\ small_bouquet_designs' = create_bouquet_designs_matching_structure(
                                                bouquet_design, small_bouquet_designs)
                /\ UNCHANGED large_bouquet_designs
    /\ design_index' = design_index + 1
    /\ UNCHANGED << bouquet_designs, large_flowers_counter, small_flowers_counter,
                    printed, consumed, before, matches >>

\* Output with the bouquets made written in front of what was printed before
OutputNewestFirst(output, made) == [i \in DOMAIN made |-> made[i].bouquet] \o output

\* print(...): the bouquets made are written after what was printed before
Output(output, made) == output \o [i \in DOMAIN made |-> made[i].bouquet]

\* The body of the loop over the stream of flowers, for one flower
Consume(flower) ==
    LET r == production_facility(flower, large_bouquet_designs, small_bouquet_designs,
                                 large_flowers_counter, small_flowers_counter)
    IN  /\ large_flowers_counter' = r.large
        /\ small_flowers_counter' = r.small
        /\ printed' = Output(printed, r.made)
        /\ consumed' = Append(consumed, flower)
        /\ before' = [large |-> large_flowers_counter, small |-> small_flowers_counter,
                       printed |-> printed]
        /\ matches' = r.made
        /\ UNCHANGED << bouquet_designs, design_index, large_bouquet_designs,
                        small_bouquet_designs >>

\* One turn of the loop over the stream of flowers
TakeFlower ==
    /\ design_index > Len(bouquet_designs)
    /\ Len(consumed) < MaxFlowers
    /\ \E flower \in Flowers : Consume(flower)

Next == CreateBouquetDesign \/ TakeFlower

Spec == Init /\ [][Next]_vars

\* ------------------------------------------------------------------ properties
\* The last flower taken from the stream, and what belongs to its size
Arrived == consumed # <<>>

LastFlower == consumed[Len(consumed)]

CounterBefore == IF LastFlower[2] = "L" THEN before.large ELSE before.small

CounterAfter ==
    IF LastFlower[2] = "L" THEN large_flowers_counter ELSE small_flowers_counter

Registry == IF LastFlower[2] = "L" THEN large_bouquet_designs ELSE small_bouquet_designs

FlowerTypes == { f[1] : f \in Flowers }

\* The count of a flower type in an inventory; a type never seen counts 0
Count(flowers_counter, key) ==
    IF key \in Keys(flowers_counter) THEN Get(flowers_counter, key) ELSE 0

\* The inventory of the last flower's size once that flower has been counted
CountedInventory ==
    [t \in FlowerTypes |->
        Count(CounterBefore, t) + (IF t = LastFlower[1] THEN 1 ELSE 0)]

\* The required counts hold in an inventory given as a function of the type
Satisfiable(flowers, inventory) ==
    \A i \in DOMAIN flowers : inventory[flowers[i].key] >= Int_(flowers[i].value)

\* How many flowers of a type and size the stream has delivered so far
Delivered(key, size) ==
    Cardinality({ i \in DOMAIN consumed : consumed[i] = <<key, size>> })

\* The flower types of a size in the order of their first appearance in the stream
FirstAppearance(size) ==
    LET ofSize == SelectSeq(consumed, LAMBDA f : f[2] = size)
        firsts == { i \in DOMAIN ofSize : \A j \in 1..(i - 1) : ofSize[j][1] # ofSize[i][1] }
        order[n \in 0..Len(ofSize)] ==
            IF n = 0 THEN <<>>
            ELSE IF n \in firsts THEN Append(order[n - 1], ofSize[n][1]) ELSE order[n - 1]
    IN  order[Len(ofSize)]

\* C1: one incoming flower produces at most one emission (the scan of the
\* registry stops at the first satisfiable recipe).
C1_AtMostOneEmission == Len(matches) <= 1

\* C2: if, once the arriving flower is counted, two recipes of the flower's size
\* class are both satisfiable, the one declared earlier in the input is the one
\* emitted first.
C2_RegistryOrderPrecedence ==
    Arrived =>
        LET sat == { i \in DOMAIN bouquet_designs :
                       /\ bouquet_designs[i][2] = LastFlower[2]
                       /\ Satisfiable(DesignStructure(bouquet_designs[i]).flowers,
                                      CountedInventory) }
            earliest == CHOOSE i \in sat : \A j \in sat : i <= j
        IN  Cardinality(sat) >= 2 =>
                /\ matches # <<>>
                /\ matches[1].bouquet_name = bouquet_designs[earliest][1]
                /\ matches[1].bouquet = DesignStructure(bouquet_designs[earliest]).bouquet

\* C3: a match is never missed: if, once the arriving flower is counted, some
\* recipe of the registry of its size class has every required quantity covered
\* by the inventory (a type never seen counting 0), the arrival emits.
C3_NoMissedMatch ==
    Arrived =>
        ( (\E i \in DOMAIN Registry : Satisfiable(Registry[i].value.flowers, CountedInventory))
            => matches # <<>> )

C5_NonNegativeCounts ==
    /\ \A i \in DOMAIN large_flowers_counter : large_flowers_counter[i].value \in Nat
    /\ \A i \in DOMAIN small_flowers_counter : small_flowers_counter[i].value \in Nat
    /\ \A i \in DOMAIN matches :
          /\ \A j \in DOMAIN matches[i].named : matches[i].named[j].value \in Nat
          /\ \A j \in DOMAIN matches[i].after : matches[i].after[j].value \in Nat

C5_Witness ==
    /\ Len(matches) >= 2
    /\ \E i \in DOMAIN matches : matches[i].after # matches[i].named

\* C6: after an arrival that produces no match, the inventory of the flower's
\* size class differs from the one before only in the arriving type, which is
\* one higher, and nothing is emitted.
C6_NoMatchArrival ==
    (Arrived /\ matches = <<>>) =>
        /\ \A t \in FlowerTypes : Count(CounterAfter, t) = CountedInventory[t]
        /\ Keys(CounterAfter) = Keys(CounterBefore) \cup {LastFlower[1]}
        /\ printed = before.printed

C6_Witness ==
    /\ Arrived
    /\ matches = <<>>
    /\ Registry # <<>>
    /\ Count(CounterBefore, LastFlower[1]) >= 1

C8_FillerTarget ==
    \A i \in DOMAIN matches :
        LET order == FirstAppearance(LastFlower[2])
            holds == { n \in DOMAIN order :
                         Count(matches[i].named, order[n]) >= matches[i].additional }
            target == order[CHOOSE n \in holds : \A k \in holds : n <= k]
        IN  (matches[i].additional > 0 /\ holds # {}) =>
                \A t \in FlowerTypes :
                    Count(matches[i].after, t) =
                        Count(matches[i].named, t)
                          - (IF t = target THEN matches[i].additional ELSE 0)

C8_Witness ==
    \E i \in DOMAIN matches :
        /\ matches[i].additional > 0
        /\ Len(matches[i].named) >= 2
        /\ matches[i].named[1].value = 0
        /\ matches[i].after[1] = matches[i].named[1]
        /\ matches[i].after[2].value = matches[i].named[2].value - matches[i].additional

\* C9: a flower of one size class leaves the inventory of the other size class
\* unchanged, and no flower changes either registry.
C9_SizeClassIsolation ==
    [][ (consumed' # consumed) =>
          /\ large_bouquet_designs' = large_bouquet_designs
          /\ small_bouquet_designs' = small_bouquet_designs
          /\ (consumed'[Len(consumed')][2] = "L"
                => small_flowers_counter' = small_flowers_counter)
          /\ (consumed'[Len(consumed')][2] = "S"
                => large_flowers_counter' = large_flowers_counter) ]_vars

C9_Witness ==
    /\ large_flowers_counter # <<>>
    /\ small_flowers_counter # <<>>
    /\ large_bouquet_designs # <<>>
    /\ small_bouquet_designs # <<>>
    /\ printed # <<>>

\* C10: every compiled recipe is in the registry of the size class named by the
\* letter at position 1 of its description, whatever its identifier; so a
\* flower of a size class only causes emissions of recipes of that size class.
C10_RegistryBySizeLetter ==
    /\ \A i \in DOMAIN bouquet_designs :
          i < design_index =>
              LET registry == IF bouquet_designs[i][2] = "L"
                              THEN large_bouquet_designs ELSE small_bouquet_designs
              IN  /\ bouquet_designs[i][1] \in Keys(registry)
                  /\ Get(registry, bouquet_designs[i][1])
                       = DesignStructure(bouquet_designs[i])
    /\ \A m \in DOMAIN matches :
          \E i \in DOMAIN bouquet_designs :
              /\ bouquet_designs[i][1] = matches[m].bouquet_name
              /\ bouquet_designs[i][2] = LastFlower[2]
              /\ DesignStructure(bouquet_designs[i]).bouquet = matches[m].bouquet

\* ------------------------------------------------------------------ scenario
\* A single design whose required quantities are all positive, fed with exactly
\* the flowers it names: the designs above of that shape, and AS10a10b25.
PositiveFlowers(flowers) ==
    /\ flowers # <<>>
    /\ \A i \in DOMAIN flowers : Int_(flowers[i].value) >= 1

ScenarioDesigns ==
    { d \in DesignTokens : PositiveFlowers(DesignStructure(d).flowers) }
      \cup { <<"A", "S", "1", "0", "a", "1", "0", "b", "2", "5">> }

\* The size of the flowers the only registry in use is fed with
ScenarioSize == IF large_bouquet_designs # <<>> THEN "L" ELSE "S"

ScenarioDesign ==
    IF large_bouquet_designs # <<>>
    THEN large_bouquet_designs[1].value ELSE small_bouquet_designs[1].value

ScenarioCounter ==
    IF large_bouquet_designs # <<>> THEN large_flowers_counter ELSE small_flowers_counter

ScenarioInit ==
    /\ bouquet_designs \in { <<d>> : d \in ScenarioDesigns }
    /\ design_index = 1
    /\ large_bouquet_designs = <<>>
    /\ small_bouquet_designs = <<>>
    /\ large_flowers_counter = <<>>
    /\ small_flowers_counter = <<>>
    /\ printed = <<>>
    /\ consumed = <<>>
    /\ before = [large |-> <<>>, small |-> <<>>, printed |-> <<>>]
    /\ matches = <<>>

\* A flower the design still lacks is taken from the stream
FeedRequiredFlower ==
    /\ design_index > Len(bouquet_designs)
    /\ \E key \in Keys(ScenarioDesign.flowers) :
          /\ Delivered(key, ScenarioSize) < Int_(Get(ScenarioDesign.flowers, key))
          /\ Consume(<<key, ScenarioSize>>)

ScenarioNext == CreateBouquetDesign \/ FeedRequiredFlower

ScenarioSpec == ScenarioInit /\ [][ScenarioNext]_vars

ScenarioComplete ==
    /\ design_index > Len(bouquet_designs)
    /\ \A key \in Keys(ScenarioDesign.flowers) :
          Delivered(key, ScenarioSize) = Int_(Get(ScenarioDesign.flowers, key))

C12_AppendOnlyOutput ==
    [][ IF consumed' # consumed
        THEN LET registry == IF consumed'[Len(consumed')][2] = "L"
                             THEN large_bouquet_designs ELSE small_bouquet_designs
             IN  /\ printed' = printed \o
                        [i \in DOMAIN matches' |->
                            Get(registry, matches'[i].bouquet_name).bouquet]
                 /\ \A i \in DOMAIN matches' :
                        i > 1 => matches'[i].examined = matches'[i - 1].after
        ELSE printed' = printed ]_vars

C12_Witness ==
    /\ Len(matches) >= 2
    /\ Len(before.printed) >= 1
    /\ Len(printed) = Len(before.printed) + Len(matches)
    /\ printed[1] # printed[Len(printed)]

WellFormed(bouquet_design) ==
    /\ FindNames(From(bouquet_design, 2)) # <<>>
    /\ Len(FindNumbers(From(bouquet_design, 2)))
         = Len(FindNames(From(bouquet_design, 2))) + 1
    /\ bouquet_design[Len(bouquet_design)] \in Digits

\* The description without its trailing total
WithoutTrailingTotal(bouquet_design) ==
    LET numbers == FindNumbers(From(bouquet_design, 2))
    IN  SubSeq(bouquet_design, 1, Len(bouquet_design) - Len(numbers[Len(numbers)]))

\* C14: the display code of a well-formed description is the description with
\* only the trailing total removed, also when the total's numeral occurs
\* elsewhere in the description.
C14_DisplayCodeDropsOnlyTotal ==
    (design_index > 1 /\ WellFormed(bouquet_designs[design_index - 1])) =>
        LET bouquet_design == bouquet_designs[design_index - 1]
        IN  \E registry \in {large_bouquet_designs, small_bouquet_designs} :
                /\ bouquet_design[1] \in Keys(registry)
                /\ Get(registry, bouquet_design[1]).bouquet
                     = WithoutTrailingTotal(bouquet_design)

\* The quantity a recipe requires of a type; 0 for a type it does not name
Required(flowers, key) == IF key \in Keys(flowers) THEN Int_(Get(flowers, key)) ELSE 0

TotalCount(flowers_counter) ==
    Sum([i \in DOMAIN flowers_counter |-> flowers_counter[i].value])

\* The types, in order of first appearance, that hold the filler of a match
\* once the quantities it requires are set aside
FillerHolders(m) ==
    LET order == FirstAppearance(LastFlower[2])
    IN  { n \in DOMAIN order :
            /\ m.additional > 0
            /\ Count(m.examined, order[n]) - Required(m.flowers, order[n]) >= m.additional }

\* C15: a match lowers every required type by its required quantity, lowers the
\* filler target (if one is chosen) by the full filler on top of that, and
\* leaves every other type unchanged; the total drops by totalFlowers when the
\* filler is deducted and by the sum of the required quantities otherwise.
C15_ExactDeduction ==
    \A i \in DOMAIN matches :
        LET m == matches[i]
            order == FirstAppearance(LastFlower[2])
            holders == FillerHolders(m)
            target == order[CHOOSE n \in holders : \A k \in holders : n <= k]
            total == Int_(Get(Registry, m.bouquet_name).total_number_of_flowers)
        IN  /\ \A t \in FlowerTypes :
                  Count(m.after, t) =
                      Count(m.examined, t) - Required(m.flowers, t)
                        - (IF holders # {} /\ t = target THEN m.additional ELSE 0)
            /\ TotalCount(m.examined) - TotalCount(m.after) =
                  IF holders # {} THEN total
                  ELSE Sum([j \in DOMAIN m.flowers |-> Int_(m.flowers[j].value)])

C15_Witness ==
    \E i \in DOMAIN matches :
        /\ FillerHolders(matches[i]) # {}
        /\ matches[i].named # matches[i].examined
        /\ Len(matches[i].examined) >= 2
        /\ matches[i].after[1] = matches[i].named[1]

\* C16: a bouquet is emitted only when the inventory of its size class holds,
\* just before the deduction, at least totalFlowers unconsumed flowers.
C16_EnoughFlowersInTotal ==
    \A i \in DOMAIN matches :
        TotalCount(matches[i].examined)
          >= Int_(Get(Registry, matches[i].bouquet_name).total_number_of_flowers)

AllPositive(registry) ==
    \A i \in DOMAIN registry : PositiveFlowers(registry[i].value.flowers)

Quiescent(registry, flowers_counter) ==
    \A i \in DOMAIN registry :
        ~ Satisfiable(registry[i].value.flowers,
                      [t \in FlowerTypes |-> Count(flowers_counter, t)])

\* C17: if every recipe of a registry names at least one type and requires
\* >= 1 of each, then initially and after every arrival no recipe of that
\* registry is satisfiable against the inventory of its size class.
C17_Quiescence ==
    /\ AllPositive(large_bouquet_designs)
          => Quiescent(large_bouquet_designs, large_flowers_counter)
    /\ AllPositive(small_bouquet_designs)
          => Quiescent(small_bouquet_designs, small_flowers_counter)

C17_Witness ==
    /\ Arrived
    /\ Len(Registry) = 2
    /\ AllPositive(Registry)
    /\ matches # <<>>
    /\ \E i \in DOMAIN CounterAfter : CounterAfter[i].value >= 2

\* C18: if every recipe of a registry names at least one type and requires
\* >= 1 of each, every arrival emits at most one recipe, and that recipe
\* requires the type of the arriving flower.
C18_SingleEmissionPositive ==
    (Arrived /\ AllPositive(Registry)) =>
        /\ Len(matches) <= 1
        /\ \A i \in DOMAIN matches : LastFlower[1] \in Keys(matches[i].flowers)

C18_Witness ==
    /\ Arrived
    /\ Len(Registry) = 2
    /\ AllPositive(Registry)
    /\ Len(matches) = 1
    /\ matches[1].bouquet_name = Registry[1].key
    /\ LastFlower[1] \in Keys(Registry[2].value.flowers)
    /\ Len(before.printed) >= 1

====
